---- MODULE Spec2Model ----
(***************************************************************************)
(* Spacetime diagram visualizer (GerhardMe/spacetime).                     *)
(*                                                                         *)
(* Two variants of the application core live in the repository:           *)
(*   - the offset-observer variant  (src/flake.nix lines 44-504, with      *)
(*     src/public/spacetime/ui.js holding the frame state), and            *)
(*   - the simple-comoving variant  (src/flake.nix lines 506-877).         *)
(* src/public/spacetime/main.js is the start-up code and the add-object    *)
(* and reference-frame handlers.                                           *)
(*                                                                         *)
(* JavaScript Numbers are modelled as binary floating-point values with a  *)
(* mantissa of Precision bits, round-to-nearest-even, an unbounded         *)
(* exponent, and the special values NaN, +Infinity and -Infinity.  Zero    *)
(* carries no sign (the code never observes the sign of a zero except      *)
(* through the sign of x/0, which is taken as that of x).                  *)
(***************************************************************************)
EXTENDS Integers, Sequences, FiniteSets, TLC

\* ------------------------------------------------------------------------
\* Bounds of the model
\* ------------------------------------------------------------------------

\* Mantissa width of the modelled Numbers (binary64 has 53).
Precision == 11

\* Most objects the registry holds at once.
MaxObjects == 2

\* Number of distinct values Date.now() + Math.random() takes in the model.
MaxId == 2

\* ------------------------------------------------------------------------
\* Numbers: [k |-> "fin", m |-> mantissa, e |-> exponent] is m * 2^e with m
\* odd (or m = 0, e = 0); [k |-> "inf", m |-> +1 or -1]; [k |-> "nan"].
\* ------------------------------------------------------------------------

NaN == [k |-> "nan", m |-> 0, e |-> 0]

Infinity == [k |-> "inf", m |-> 1, e |-> 0]

NegInfinity == [k |-> "inf", m |-> -1, e |-> 0]

Zero == [k |-> "fin", m |-> 0, e |-> 0]

AbsInt(n) == IF n < 0 THEN -n ELSE n

SignInt(n) == IF n < 0 THEN -1 ELSE IF n > 0 THEN 1 ELSE 0

RECURSIVE BitLen(_)
\* number of binary digits of a natural number
BitLen(n) == IF n = 0 THEN 0 ELSE 1 + BitLen(n \div 2)

RECURSIVE Canon(_, _)
\* the unique representation of the value n * 2^e
Canon(n, e) ==
    IF n = 0 THEN Zero
    ELSE IF n % 2 = 0 THEN Canon(n \div 2, e + 1)
    ELSE [k |-> "fin", m |-> n, e |-> e]

\* n * 2^e rounded to Precision bits, ties to even
RoundFin(n, e) ==
    LET a == AbsInt(n)
        bits == BitLen(a)
    IN  IF bits <= Precision THEN Canon(n, e)
        ELSE LET shift == bits - Precision
                 q == a \div (2 ^ shift)
                 r == a % (2 ^ shift)
                 half == 2 ^ (shift - 1)
                 up == r > half \/ (r = half /\ q % 2 = 1)
             IN  Canon(SignInt(n) * (IF up THEN q + 1 ELSE q), e + shift)

FromInt(n) == RoundFin(n, 0)

\* (a / b) * 2^e correctly rounded, for naturals a, b > 0: the quotient is
\* taken with at least Precision + 2 bits and a sticky bit for the remainder
DivNat(a, b, e) ==
    LET d == Precision + 3 + BitLen(b) - BitLen(a)
        k == IF d > 0 THEN d ELSE 0
        q == (a * (2 ^ k)) \div b
        r == (a * (2 ^ k)) % b
    IN  RoundFin(2 * q + (IF r = 0 THEN 0 ELSE 1), e - k - 1)

IsNaN(x) == x.k = "nan"

IsFinite(x) == x.k = "fin"

Sign(x) == IF x.k = "nan" THEN 0 ELSE SignInt(x.m)

\* position of the leading bit of a non-zero finite number
Top(x) == x.e + BitLen(AbsInt(x.m))

fNeg(x) == [x EXCEPT !.m = -x.m]

fAbs(x) == [x EXCEPT !.m = AbsInt(x.m)]

\* exact sum of two finite numbers, then one rounding
FinAdd(x, y) ==
    IF x.m = 0 THEN y
    ELSE IF y.m = 0 THEN x
    ELSE IF Top(x) - Top(y) > Precision + 2 THEN x
    ELSE IF Top(y) - Top(x) > Precision + 2 THEN y
    ELSE LET e == IF x.e < y.e THEN x.e ELSE y.e
         IN  RoundFin(x.m * (2 ^ (x.e - e)) + y.m * (2 ^ (y.e - e)), e)

fAdd(x, y) ==
    IF IsNaN(x) \/ IsNaN(y) THEN NaN
    ELSE IF x.k = "inf" /\ y.k = "inf" THEN (IF x.m = y.m THEN x ELSE NaN)
    ELSE IF x.k = "inf" THEN x
    ELSE IF y.k = "inf" THEN y
    ELSE FinAdd(x, y)

fSub(x, y) == fAdd(x, fNeg(y))

fMul(x, y) ==
    IF IsNaN(x) \/ IsNaN(y) THEN NaN
    ELSE IF x.k = "inf" \/ y.k = "inf"
         THEN (IF Sign(x) * Sign(y) = 0 THEN NaN
               ELSE IF Sign(x) * Sign(y) > 0 THEN Infinity ELSE NegInfinity)
    ELSE RoundFin(x.m * y.m, x.e + y.e)

fDiv(x, y) ==
    IF IsNaN(x) \/ IsNaN(y) THEN NaN
    ELSE IF x.k = "inf"
         THEN (IF y.k = "inf" THEN NaN
               ELSE IF Sign(x) * Sign(y) < 0 THEN NegInfinity ELSE Infinity)
    ELSE IF y.k = "inf" THEN Zero
    ELSE IF y.m = 0
         THEN (IF x.m = 0 THEN NaN
               ELSE IF x.m > 0 THEN Infinity ELSE NegInfinity)
    ELSE IF x.m = 0 THEN Zero
    ELSE LET q == DivNat(AbsInt(x.m), AbsInt(y.m), x.e - y.e)
         IN  IF Sign(x) * Sign(y) < 0 THEN fNeg(q) ELSE q

RECURSIVE ISqrtIn(_, _, _)
\* the largest s in lo..hi with s * s <= n
ISqrtIn(n, lo, hi) ==
    IF lo >= hi THEN lo
    ELSE LET mid == (lo + hi + 1) \div 2
         IN  IF mid * mid <= n THEN ISqrtIn(n, mid, hi) ELSE ISqrtIn(n, lo, mid - 1)

ISqrt(n) == ISqrtIn(n, 0, 2 ^ ((BitLen(n) + 1) \div 2))

\* Math.sqrt
fSqrt(x) ==
    IF IsNaN(x) \/ Sign(x) < 0 THEN NaN
    ELSE IF x.k = "inf" \/ x.m = 0 THEN x
    ELSE LET need == 2 * Precision + 3 - BitLen(x.m)
             k == IF (x.e - need) % 2 = 0 THEN need ELSE need + 1
             n == x.m * (2 ^ k)
             s == ISqrt(n)
         IN  RoundFin(2 * s + (IF s * s = n THEN 0 ELSE 1), ((x.e - k) \div 2) - 1)

\* x < y on Numbers (false when either is NaN)
fLess(x, y) ==
    IF IsNaN(x) \/ IsNaN(y) \/ x = y THEN FALSE
    ELSE IF x.k = "inf" THEN x.m < 0
    ELSE IF y.k = "inf" THEN y.m > 0
    ELSE IF Sign(x) # Sign(y) THEN Sign(x) < Sign(y)
    ELSE IF Top(x) # Top(y) THEN (IF Sign(x) > 0 THEN Top(x) < Top(y) ELSE Top(x) > Top(y))
    ELSE LET e == IF x.e < y.e THEN x.e ELSE y.e
         IN  x.m * (2 ^ (x.e - e)) < y.m * (2 ^ (y.e - e))

fLessEq(x, y) == ~IsNaN(x) /\ ~IsNaN(y) /\ (x = y \/ fLess(x, y))

\* Math.max(a, b) and Math.min(a, b)
MathMax(a, b) == IF IsNaN(a) \/ IsNaN(b) THEN NaN ELSE IF fLess(a, b) THEN b ELSE a

MathMin(a, b) == IF IsNaN(a) \/ IsNaN(b) THEN NaN ELSE IF fLess(b, a) THEN b ELSE a

One == FromInt(1)

\* ------------------------------------------------------------------------
\* Number literals of the source
\* ------------------------------------------------------------------------

\* 0.99 (main.js line 22) and 0.999 (ui.js line 310)
Lit099 == DivNat(99, 100, 0)

Lit0999 == DivNat(999, 1000, 0)

\* 1e-10 (flake.nix line 125), as 1 / 10^5 / 10^5
Lit1em10 == fDiv(fDiv(One, FromInt(100000)), FromInt(100000))

\* ------------------------------------------------------------------------
\* Relativity kernel, offset-observer variant (flake.nix lines 82-151)
\* ------------------------------------------------------------------------

\* Lorentz factor
gamma(v) ==
    IF fLessEq(One, fAbs(v)) THEN Infinity
    ELSE fDiv(One, fSqrt(fSub(One, fMul(v, v))))

\* event (x, t) of the lab frame in the frame moving at velocity V
lorentzTransform(x, t, V) ==
    LET g == gamma(V)
    IN  [x |-> fMul(g, fSub(x, fMul(V, t))),
         t |-> fMul(g, fSub(t, fMul(V, x)))]

\* relativistic velocity addition
velocityTransform(u, V) == fDiv(fSub(u, V), fSub(One, fMul(u, V)))

\* a faulty world line: the position at t' = 0 is not scaled by gamma
getWorldLineInObserverFrame_noGamma(obj, tPrimeMin, tPrimeMax, observerV) ==
    LET vPrime == fDiv(fSub(obj.v, observerV), fSub(One, fMul(obj.v, observerV)))
        denominator == fSub(One, fMul(obj.v, observerV))
    IN  IF fLess(fAbs(denominator), Lit1em10) THEN << >>
        ELSE LET xLabAtTPrime0 == fDiv(obj.x, denominator)
                 tLabAtTPrime0 == fMul(observerV, xLabAtTPrime0)
                 xPrimeAt0 == fSub(xLabAtTPrime0, fMul(observerV, tLabAtTPrime0))
             IN  << [x |-> fAdd(xPrimeAt0, fMul(vPrime, tPrimeMin)), t |-> tPrimeMin],
                    [x |-> fAdd(xPrimeAt0, fMul(vPrime, tPrimeMax)), t |-> tPrimeMax] >>

\* world line of obj in the observer's frame: two points, or none
getWorldLineInObserverFrame(obj, tPrimeMin, tPrimeMax, observerV) ==
    LET vPrime == velocityTransform(obj.v, observerV)
        g == gamma(observerV)
        denominator == fSub(One, fMul(obj.v, observerV))
    IN  IF fLess(fAbs(denominator), Lit1em10) THEN << >>
        ELSE LET xLabAtTPrime0 == fDiv(obj.x, denominator)
                 tLabAtTPrime0 == fMul(observerV, xLabAtTPrime0)
                 xPrimeAt0 == fMul(g, fSub(xLabAtTPrime0, fMul(observerV, tLabAtTPrime0)))
             IN  << [x |-> fAdd(xPrimeAt0, fMul(vPrime, tPrimeMin)), t |-> tPrimeMin],
                    [x |-> fAdd(xPrimeAt0, fMul(vPrime, tPrimeMax)), t |-> tPrimeMax] >>

\* the observer's own world line
getObserverWorldLine(tPrimeMin, tPrimeMax) ==
    << [x |-> Zero, t |-> tPrimeMin], [x |-> Zero, t |-> tPrimeMax] >>

\* ------------------------------------------------------------------------
\* Relativity kernel, simple-comoving variant (flake.nix lines 550-587)
\* ------------------------------------------------------------------------

gamma_c(v) == fDiv(One, fSqrt(fSub(One, fMul(v, v))))

lorentzTransform_c(x, t, v) ==
    LET g == gamma_c(v)
    IN  [x |-> fMul(g, fSub(x, fMul(v, t))),
         t |-> fMul(g, fSub(t, fMul(v, x)))]

\* a faulty getWorldLine: the points are left in the lab frame
getWorldLine_labOnly(obj, tMin, tMax, refV) ==
    LET dt == fDiv(fSub(tMax, tMin), FromInt(100))
    IN  [n \in 1..101 |->
            LET tLab == fAdd(tMin, fMul(FromInt(n - 1), dt))
            IN  [x |-> fAdd(obj.x, fMul(obj.v, tLab)), t |-> tLab]]

\* const steps = 100
steps == 100

\* world line of obj in the frame moving with refV: steps + 1 points, sampled
\* at equal steps of lab time from tMin
getWorldLine(obj, tMin, tMax, refV) ==
    LET dt == fDiv(fSub(tMax, tMin), FromInt(steps))
    IN  [n \in 1..(steps + 1) |->
            LET tLab == fAdd(tMin, fMul(FromInt(n - 1), dt))
                xLab == fAdd(obj.x, fMul(obj.v, tLab))
            IN  IF refV = Zero THEN [x |-> xLab, t |-> tLab]
                ELSE LET transformed == lorentzTransform_c(xLab, tLab, refV)
                     IN  [x |-> transformed.x, t |-> transformed.t]]


\* ------------------------------------------------------------------------
\* Text: a string of the page is a sequence of characters.  parseFloat and
\* the Number-to-string conversion are modelled for plain decimal notation
\* (no exponent part); the texts of the model stay within it.
\* ------------------------------------------------------------------------

Digits == << "0", "1", "2", "3", "4", "5", "6", "7", "8", "9" >>

IsDigit(c) == \E d \in 1..10 : Digits[d] = c

DigitValue(c) == (CHOOSE d \in 1..10 : Digits[d] = c) - 1

InfinityText == << "I", "n", "f", "i", "n", "i", "t", "y" >>

NaNText == << "N", "a", "N" >>

RECURSIVE DigitsEnd(_, _)
\* the first position at or after i that holds no digit
DigitsEnd(s, i) == IF i <= Len(s) /\ IsDigit(s[i]) THEN DigitsEnd(s, i + 1) ELSE i

RECURSIVE SpacesEnd(_, _)
SpacesEnd(s, i) == IF i <= Len(s) /\ s[i] = " " THEN SpacesEnd(s, i + 1) ELSE i

RECURSIVE DigitsNat(_)
\* the natural number a sequence of digits denotes
DigitsNat(ds) ==
    IF ds = << >> THEN 0
    ELSE 10 * DigitsNat(SubSeq(ds, 1, Len(ds) - 1)) + DigitValue(ds[Len(ds)])

\* parseFloat(s): leading blanks, a sign, then Infinity or digits with an
\* optional fraction; what follows is ignored; NaN when there is no number
ParseFloat(s) ==
    LET i0 == SpacesEnd(s, 1)
        neg == i0 <= Len(s) /\ s[i0] = "-"
        i1 == IF i0 <= Len(s) /\ s[i0] \in {"-", "+"} THEN i0 + 1 ELSE i0
        j == DigitsEnd(s, i1)
        dot == j <= Len(s) /\ s[j] = "."
        k == IF dot THEN DigitsEnd(s, j + 1) ELSE j
        intDs == SubSeq(s, i1, j - 1)
        fracDs == IF dot THEN SubSeq(s, j + 1, k - 1) ELSE << >>
        n == DigitsNat(intDs \o fracDs)
        mag == IF n = 0 THEN Zero ELSE DivNat(n, 10 ^ Len(fracDs), 0)
    IN  IF i1 + 7 <= Len(s) /\ SubSeq(s, i1, i1 + 7) = InfinityText
        THEN (IF neg THEN NegInfinity ELSE Infinity)
        ELSE IF Len(intDs) + Len(fracDs) = 0 THEN NaN
        ELSE IF neg THEN fNeg(mag) ELSE mag

RECURSIVE NatText(_)
NatText(n) == IF n < 10 THEN << Digits[n + 1] >> ELSE NatText(n \div 10) \o << Digits[(n % 10) + 1] >>

RECURSIVE FracText(_, _)
\* the decimal digits of r / 2^k, for r < 2^k
FracText(r, k) ==
    IF r = 0 THEN << >>
    ELSE << Digits[((r * 10) \div (2 ^ k)) + 1] >> \o FracText((r * 10) % (2 ^ k), k)

\* String(x), as the exact decimal expansion of x
NumberToString(x) ==
    IF x.k = "nan" THEN NaNText
    ELSE IF x.k = "inf" THEN (IF x.m < 0 THEN << "-" >> ELSE << >>) \o InfinityText
    ELSE LET a == AbsInt(x.m)
             sgn == IF x.m < 0 THEN << "-" >> ELSE << >>
         IN  IF x.e >= 0 THEN sgn \o NatText(a * (2 ^ x.e))
             ELSE sgn \o NatText(a \div (2 ^ (-x.e))) \o << "." >>
                      \o FracText(a % (2 ^ (-x.e)), -x.e)

\* a === b on Numbers and null
StrictEq(a, b) == ~IsNaN(a) /\ ~IsNaN(b) /\ a = b

\* the value v || 0 of a Number v
OrZero(v) == IF IsNaN(v) \/ v = Zero THEN Zero ELSE v


\* ------------------------------------------------------------------------
\* State
\* ------------------------------------------------------------------------

VARIABLES
    variant,          \* "offset", "comoving": the application; "kernel": a bare kernel call
    pc,               \* "load": scripts evaluated, init() not yet run; "ready": init() has run
    objects,          \* const objects = []  (the registry)
    objectListEl,     \* the data-id text of each delete button of the object list
    currentRefFrame,  \* let currentRefFrame = null  (simple-comoving variant)
    refFrameSelect,   \* the options of the reference-frame select
    frame,            \* const frame = { v: 0, x: 0 }  (offset-observer variant)
    frameMatchSelect, \* the options of the match-to-object select
    rendered,         \* what the last render() drew: frame velocity and objects
    lastCall,         \* the registry or frame operation the last event called
    kArgs,            \* arguments of a bare kernel call
    kCall,            \* the kernel function called, "none" before
    kLine,            \* a returned world line
    kNum              \* a returned Number

appVars == << pc, objects, objectListEl, currentRefFrame, refFrameSelect, frame,
              frameMatchSelect, rendered, lastCall >>

kernelVars == << kArgs, kCall, kLine, kNum >>

vars == << variant, pc, objects, objectListEl, currentRefFrame, refFrameSelect, frame,
           frameMatchSelect, rendered, lastCall, kArgs, kCall, kLine, kNum >>

\* null
Null == [k |-> "null", m |-> 0, e |-> 0]

\* The record kept in lastCall: the operation an event called and its
\* argument, whether an id argument named a registry object when the call
\* was made, the reference frame bound at that time, and the text of the
\* velocity field an add-object click read.
Call(op, arg) ==
    [op |-> op, arg |-> arg, found |-> FALSE, ref |-> currentRefFrame, text |-> << >>]

CallId(op, id) ==
    [Call(op, id) EXCEPT !.found = \E i \in 1..Len(objects) : objects[i].id = id]

\* ------------------------------------------------------------------------
\* Inputs: what the user types, and the values createObject draws
\* ------------------------------------------------------------------------

\* Date.now() + Math.random(): a Number above 2^40 keeps 12 fraction bits, so
\* two calls within one millisecond can return the same value
IdSpace == { DivNat(2 * n + 1, 2, 0) : n \in 0..(MaxId - 1) }

\* contents of the velocity field of the add-object form
VTexts == { << "a", "b", "c" >>, << "1", ".", "5" >>, << "-", "2" >> }

\* contents of the position field of the add-object form
XTexts == { << "2" >> }

\* contents of the name field of the add-object form
NameTexts == { "" }

\* contents of the colour field of the add-object form
ColorTexts == { "#00ffff" }

\* contents of the frame velocity field
FrameVTexts == { << "0", ".", "5" >>, << "1", ".", "5" >>, << "-", "3" >>, << "x" >> }

\* contents of the frame position field
FrameXTexts == { << "1" >>, << >> }

\* ------------------------------------------------------------------------
\* Object management (flake.nix lines 55-80 and 515-548)
\* ------------------------------------------------------------------------

\* stamp is the value of Date.now() + Math.random()
createObject(name, x, v, color, stamp) ==
    [id |-> stamp, name |-> name, x |-> x, v |-> v, color |-> color]

\* objects.findIndex(o => o.id === id), counting from 1; 0 for JavaScript's -1
findIndex(objs, id) ==
    IF \E i \in 1..Len(objs) : StrictEq(objs[i].id, id)
    THEN CHOOSE i \in 1..Len(objs) :
             /\ StrictEq(objs[i].id, id)
             /\ \A j \in 1..(i - 1) : ~StrictEq(objs[j].id, id)
    ELSE 0

\* a faulty splice: objects.splice(idx, 2)
splice_two(objs, idx) == SubSeq(objs, 1, idx - 1) \o SubSeq(objs, idx + 2, Len(objs))

\* objects.splice(idx, 1)
splice(objs, idx) == SubSeq(objs, 1, idx - 1) \o SubSeq(objs, idx + 1, Len(objs))

\* the delete buttons updateObjectList builds: data-id="${obj.id}"
updateObjectList(objs) == [i \in 1..Len(objs) |-> NumberToString(objs[i].id)]

\* the options updateRefFrameSelect builds
updateRefFrameSelect(objs) ==
    << [value |-> << >>, text |-> "Lab Frame"] >>
    \o [i \in 1..Len(objs) |-> [value |-> NumberToString(objs[i].id), text |-> objs[i].name]]

\* the options updateFrameMatchSelect builds
updateFrameMatchSelect(objs) ==
    << [value |-> << >>, text |-> "-- Select --"] >>
    \o [i \in 1..Len(objs) |-> [value |-> NumberToString(objs[i].id), text |-> objs[i].name]]

\* render() of the simple-comoving variant: the reference velocity it passes
\* to getWorldLine for each object it draws
render_c(objs, cur) ==
    LET idx == findIndex(objs, cur)
        refV == IF cur # Null /\ idx # 0 THEN objs[idx].v ELSE Zero
    IN  [V |-> refV, objects |-> objs]

\* render() of the offset-observer variant: the observer velocity it passes
\* to getWorldLineInObserverFrame for each object it draws
render_o(objs, fr) == [V |-> fr.v, objects |-> objs]

\* let viewCenterT = 2
viewCenterT == 2

\* let viewScale = 50
viewScale == 50

\* canvas.height, as resize() sets it from the size of the page
CanvasHeight == 400

\* screenToWorld(sx, sy).t
screenToWorldT(sy) ==
    LET cy == fDiv(FromInt(CanvasHeight), FromInt(2))
    IN  fAdd(fDiv(fNeg(fSub(sy, cy)), FromInt(viewScale)), FromInt(viewCenterT))

\* the time range render() draws: tMin = bottomRight.t - 1, tMax = topLeft.t + 1
renderWindow ==
    [tMin |-> fSub(screenToWorldT(FromInt(CanvasHeight)), One),
     tMax |-> fAdd(screenToWorldT(Zero), One)]

\* the world line render() of the offset-observer variant computes for obj
drawnWorldLine_o(obj, observerV) ==
    getWorldLineInObserverFrame(obj, renderWindow.tMin, renderWindow.tMax, observerV)

\* the observer's world line render() of the offset-observer variant draws
drawnObserverLine_o == getObserverWorldLine(renderWindow.tMin, renderWindow.tMax)

\* a faulty click handler: the velocity is not clamped
clickObject_noClamp(nameText, xText, vText, colorText, stamp) ==
    createObject(IF nameText = "" THEN "Object" ELSE nameText, OrZero(ParseFloat(xText)),
                 OrZero(ParseFloat(vText)), IF colorText = "" THEN "#00ffff" ELSE colorText,
                 stamp)

\* the object the add-object click handler creates (main.js lines 15-24)
clickObject(nameText, xText, vText, colorText, stamp) ==
    LET name == IF nameText = "" THEN "Object" ELSE nameText
        x == OrZero(ParseFloat(xText))
        v == OrZero(ParseFloat(vText))
        color == IF colorText = "" THEN "#00ffff" ELSE colorText
        vClamped == MathMax(fNeg(Lit099), MathMin(Lit099, v))
    IN  createObject(name, x, vClamped, color, stamp)

\* the two default objects of init (main.js lines 10-11)
defaultObserver(stamp) == createObject("Observer", Zero, Zero, "#ffffff", stamp)

defaultRocket(stamp) == createObject("Rocket", One, DivNat(1, 2, 0), "#ff6b6b", stamp)


\* ------------------------------------------------------------------------
\* Simple-comoving variant: operations (flake.nix lines 525-548)
\* ------------------------------------------------------------------------

addObject_c(obj) ==
    /\ objects' = Append(objects, obj)
    /\ objectListEl' = updateObjectList(objects')
    /\ refFrameSelect' = updateRefFrameSelect(objects')
    /\ rendered' = render_c(objects', currentRefFrame)
    /\ UNCHANGED currentRefFrame

\* a faulty removeObject: the reference-frame select is not rebuilt
removeObject_c_staleSelect(id) ==
    LET idx == findIndex(objects, id)
    IN  IF idx # 0
        THEN /\ objects' = splice(objects, idx)
             /\ currentRefFrame' = IF StrictEq(currentRefFrame, id) THEN Null ELSE currentRefFrame
             /\ objectListEl' = updateObjectList(objects')
             /\ rendered' = render_c(objects', currentRefFrame')
             /\ UNCHANGED refFrameSelect
        ELSE UNCHANGED << objects, currentRefFrame, objectListEl, refFrameSelect, rendered >>

\* a faulty removeObject: the bound reference frame is kept
removeObject_c_keepsFrame(id) ==
    LET idx == findIndex(objects, id)
    IN  IF idx # 0
        THEN /\ objects' = splice(objects, idx)
             /\ objectListEl' = updateObjectList(objects')
             /\ refFrameSelect' = updateRefFrameSelect(objects')
             /\ rendered' = render_c(objects', currentRefFrame)
             /\ UNCHANGED currentRefFrame
        ELSE UNCHANGED << objects, currentRefFrame, objectListEl, refFrameSelect, rendered >>

removeObject_c(id) ==
    LET idx == findIndex(objects, id)
    IN  IF idx # 0
        THEN /\ objects' = splice(objects, idx)
             /\ currentRefFrame' = IF StrictEq(currentRefFrame, id) THEN Null ELSE currentRefFrame
             /\ objectListEl' = updateObjectList(objects')
             /\ refFrameSelect' = updateRefFrameSelect(objects')
             /\ rendered' = render_c(objects', currentRefFrame')
        ELSE UNCHANGED << objects, currentRefFrame, objectListEl, refFrameSelect, rendered >>

\* a faulty setRefFrame: no render
setRefFrame_noRender(id) ==
    /\ currentRefFrame' = id
    /\ UNCHANGED << objects, objectListEl, refFrameSelect, rendered >>

setRefFrame(id) ==
    /\ currentRefFrame' = id
    /\ rendered' = render_c(objects, currentRefFrame')
    /\ UNCHANGED << objects, objectListEl, refFrameSelect >>

\* ------------------------------------------------------------------------
\* Simple-comoving variant: start-up and events (main.js)
\* ------------------------------------------------------------------------

\* init(): the two default objects are added, the handlers registered, and
\* the diagram rendered
init_c ==
    \E s1 \in IdSpace, s2 \in IdSpace :
        /\ variant = "comoving" /\ pc = "load"
        /\ pc' = "ready"
        /\ objects' = Append(Append(objects, defaultObserver(s1)), defaultRocket(s2))
        /\ objectListEl' = updateObjectList(objects')
        /\ refFrameSelect' = updateRefFrameSelect(objects')
        /\ rendered' = render_c(objects', currentRefFrame)
        /\ lastCall' = Call("init", Null)
        /\ UNCHANGED << variant, currentRefFrame, frame, frameMatchSelect, kernelVars >>

\* click on the add-object button
addObjectBtn_click_c ==
    \E nameText \in NameTexts, xText \in XTexts, vText \in VTexts,
       colorText \in ColorTexts, stamp \in IdSpace :
        LET obj == clickObject(nameText, xText, vText, colorText, stamp)
        IN  /\ variant = "comoving" /\ pc = "ready"
            /\ Len(objects) < MaxObjects
            /\ addObject_c(obj)
            /\ lastCall' = [Call("addObject", obj) EXCEPT !.text = vText]
            /\ UNCHANGED << variant, pc, frame, frameMatchSelect, kernelVars >>

\* click on the delete button of an object-list item
delete_click_c ==
    \E i \in 1..Len(objectListEl) :
        LET id == ParseFloat(objectListEl[i])
        IN  /\ variant = "comoving" /\ pc = "ready"
            /\ removeObject_c(id)
            /\ lastCall' = CallId("removeObject", id)
            /\ UNCHANGED << variant, pc, frame, frameMatchSelect, kernelVars >>

\* removeObject called with any id
removeObject_call_c ==
    \E id \in IdSpace :
        /\ variant = "comoving" /\ pc = "ready"
        /\ removeObject_c(id)
        /\ lastCall' = CallId("removeObject", id)
        /\ UNCHANGED << variant, pc, frame, frameMatchSelect, kernelVars >>

\* change of the reference-frame select to one of its options
refFrameSelect_change ==
    \E i \in 1..Len(refFrameSelect) :
        LET val == refFrameSelect[i].value
            id == IF val = << >> THEN Null ELSE ParseFloat(val)
        IN  /\ variant = "comoving" /\ pc = "ready"
            /\ setRefFrame(id)
            /\ lastCall' = CallId("setRefFrame", id)
            /\ UNCHANGED << variant, pc, frame, frameMatchSelect, kernelVars >>

\* setRefFrame called with any id
setRefFrame_call ==
    \E id \in IdSpace \cup {Null} :
        /\ variant = "comoving" /\ pc = "ready"
        /\ setRefFrame(id)
        /\ lastCall' = CallId("setRefFrame", id)
        /\ UNCHANGED << variant, pc, frame, frameMatchSelect, kernelVars >>

\* resize, pan and zoom end in render()
resize_c ==
    /\ variant = "comoving" /\ pc = "ready"
    /\ rendered' = render_c(objects, currentRefFrame)
    /\ lastCall' = Call("render", Null)
    /\ UNCHANGED << variant, pc, objects, objectListEl, currentRefFrame, refFrameSelect,
                    frame, frameMatchSelect, kernelVars >>

\* ------------------------------------------------------------------------
\* Offset-observer variant: operations (flake.nix lines 65-80, ui.js 266-302)
\* ------------------------------------------------------------------------

\* a faulty addObject: no render
addObject_o_noRender(obj) ==
    /\ objects' = Append(objects, obj)
    /\ objectListEl' = updateObjectList(objects')
    /\ frameMatchSelect' = updateFrameMatchSelect(objects')
    /\ UNCHANGED << frame, rendered >>

addObject_o(obj) ==
    /\ objects' = Append(objects, obj)
    /\ objectListEl' = updateObjectList(objects')
    /\ frameMatchSelect' = updateFrameMatchSelect(objects')
    /\ rendered' = render_o(objects', frame)
    /\ UNCHANGED frame

\* a faulty removeObject: no test of the index, and splice(-1, 1) removes the
\* last object
removeObject_o_noCheck(id) ==
    LET idx == findIndex(objects, id)
    IN  /\ objects' = splice(objects, IF idx # 0 THEN idx ELSE Len(objects))
        /\ objectListEl' = updateObjectList(objects')
        /\ frameMatchSelect' = updateFrameMatchSelect(objects')
        /\ rendered' = render_o(objects', frame)
        /\ UNCHANGED frame

removeObject_o(id) ==
    LET idx == findIndex(objects, id)
    IN  IF idx # 0
        THEN /\ objects' = splice(objects, idx)
             /\ objectListEl' = updateObjectList(objects')
             /\ frameMatchSelect' = updateFrameMatchSelect(objects')
             /\ rendered' = render_o(objects', frame)
             /\ UNCHANGED frame
        ELSE UNCHANGED << objects, objectListEl, frameMatchSelect, rendered, frame >>

\* the frame syncFrameFromDOM reads from the two frame fields
syncFrameFromDOM(vText, xText) ==
    [v |-> OrZero(ParseFloat(vText)), x |-> OrZero(ParseFloat(xText))]

\* the frame fields are also written (frameVInput.value = frame.v); nothing
\* reads them again before the page is left
\* a faulty matchFrameToObject: only the velocity is copied
matchFrameToObject_onlyV(id) ==
    LET idx == findIndex(objects, id)
    IN  IF idx = 0
        THEN UNCHANGED << objects, objectListEl, frameMatchSelect, rendered, frame >>
        ELSE /\ frame' = [frame EXCEPT !.v = objects[idx].v]
             /\ rendered' = render_o(objects, frame')
             /\ UNCHANGED << objects, objectListEl, frameMatchSelect >>

matchFrameToObject(id) ==
    LET idx == findIndex(objects, id)
    IN  IF idx = 0
        THEN UNCHANGED << objects, objectListEl, frameMatchSelect, rendered, frame >>
        ELSE /\ frame' = [v |-> objects[idx].v, x |-> objects[idx].x]
             /\ rendered' = render_o(objects, frame')
             /\ UNCHANGED << objects, objectListEl, frameMatchSelect >>

\* ------------------------------------------------------------------------
\* Offset-observer variant: start-up and events (main.js, ui.js 304-330)
\* ------------------------------------------------------------------------

\* init(): initUI() reads the frame from the frame fields as the document
\* holds them at that time, resize() renders, the default objects are added
init_o ==
    \E vText \in FrameVTexts, xText \in FrameXTexts, s1 \in IdSpace, s2 \in IdSpace :
        /\ variant = "offset" /\ pc = "load"
        /\ pc' = "ready"
        /\ frame' = syncFrameFromDOM(vText, xText)
        /\ objects' = Append(Append(objects, defaultObserver(s1)), defaultRocket(s2))
        /\ objectListEl' = updateObjectList(objects')
        /\ frameMatchSelect' = updateFrameMatchSelect(objects')
        /\ rendered' = render_o(objects', frame')
        /\ lastCall' = Call("init", Null)
        /\ UNCHANGED << variant, currentRefFrame, refFrameSelect, kernelVars >>

addObjectBtn_click_o ==
    \E nameText \in NameTexts, xText \in XTexts, vText \in VTexts,
       colorText \in ColorTexts, stamp \in IdSpace :
        LET obj == clickObject(nameText, xText, vText, colorText, stamp)
        IN  /\ variant = "offset" /\ pc = "ready"
            /\ Len(objects) < MaxObjects
            /\ addObject_o(obj)
            /\ lastCall' = [Call("addObject", obj) EXCEPT !.text = vText]
            /\ UNCHANGED << variant, pc, currentRefFrame, refFrameSelect, kernelVars >>

delete_click_o ==
    \E i \in 1..Len(objectListEl) :
        LET id == ParseFloat(objectListEl[i])
        IN  /\ variant = "offset" /\ pc = "ready"
            /\ removeObject_o(id)
            /\ lastCall' = CallId("removeObject", id)
            /\ UNCHANGED << variant, pc, currentRefFrame, refFrameSelect, kernelVars >>

removeObject_call_o ==
    \E id \in IdSpace :
        /\ variant = "offset" /\ pc = "ready"
        /\ removeObject_o(id)
        /\ lastCall' = CallId("removeObject", id)
        /\ UNCHANGED << variant, pc, currentRefFrame, refFrameSelect, kernelVars >>

\* input event of the frame velocity field
frameVInput_input ==
    \E text \in FrameVTexts :
        LET v == OrZero(ParseFloat(text))
        IN  /\ variant = "offset" /\ pc = "ready"
            /\ frame' = [frame EXCEPT !.v = MathMax(fNeg(Lit0999), MathMin(Lit0999, v))]
            /\ rendered' = render_o(objects, frame')
            /\ lastCall' = Call("frameInput", Null)
            /\ UNCHANGED << variant, pc, objects, objectListEl, frameMatchSelect,
                            currentRefFrame, refFrameSelect, kernelVars >>

\* input event of the frame position field
frameXInput_input ==
    \E text \in FrameXTexts :
        /\ variant = "offset" /\ pc = "ready"
        /\ frame' = [frame EXCEPT !.x = OrZero(ParseFloat(text))]
        /\ rendered' = render_o(objects, frame')
        /\ lastCall' = Call("frameInput", Null)
        /\ UNCHANGED << variant, pc, objects, objectListEl, frameMatchSelect,
                        currentRefFrame, refFrameSelect, kernelVars >>

\* change of the match-to-object select to one of its options
frameMatchSelect_change ==
    \E i \in 1..Len(frameMatchSelect) :
        LET val == frameMatchSelect[i].value
        IN  /\ variant = "offset" /\ pc = "ready"
            /\ IF val # << >>
               THEN /\ matchFrameToObject(ParseFloat(val))
                    /\ lastCall' = CallId("matchFrameToObject", ParseFloat(val))
               ELSE UNCHANGED << objects, objectListEl, frameMatchSelect, rendered, frame,
                                 lastCall >>
            /\ UNCHANGED << variant, pc, currentRefFrame, refFrameSelect, kernelVars >>

\* matchFrameToObject called with any id
matchFrameToObject_call ==
    \E id \in IdSpace :
        /\ variant = "offset" /\ pc = "ready"
        /\ matchFrameToObject(id)
        /\ lastCall' = CallId("matchFrameToObject", id)
        /\ UNCHANGED << variant, pc, currentRefFrame, refFrameSelect, kernelVars >>

resize_o ==
    /\ variant = "offset" /\ pc = "ready"
    /\ rendered' = render_o(objects, frame)
    /\ lastCall' = Call("render", Null)
    /\ UNCHANGED << variant, pc, objects, objectListEl, frameMatchSelect, frame,
                    currentRefFrame, refFrameSelect, kernelVars >>


\* ------------------------------------------------------------------------
\* Bare kernel calls: the arguments are drawn at the start, then one kernel
\* function is applied to them
\* ------------------------------------------------------------------------

\* the largest Number below 1
BelowOne == Canon((2 ^ Precision) - 1, -Precision)

KernelVelocities ==
    { Zero, DivNat(1, 2, 0), fNeg(DivNat(1, 2, 0)), BelowOne, fNeg(BelowOne),
      One, DivNat(3, 2, 0), fNeg(DivNat(3, 2, 0)), FromInt(2) }

KernelPositions == { Zero, One, FromInt(-2) }

KernelTMins == { FromInt(-1), Zero }

KernelTMaxs == { One, FromInt(2) }

KernelArgs ==
    [obj : [x : KernelPositions, v : KernelVelocities],
     tMin : KernelTMins, tMax : KernelTMaxs, V : KernelVelocities]

call_getWorldLineInObserverFrame ==
    /\ variant = "kernel" /\ kCall = "none"
    /\ kCall' = "getWorldLineInObserverFrame"
    /\ kLine' = getWorldLineInObserverFrame(kArgs.obj, kArgs.tMin, kArgs.tMax, kArgs.V)
    /\ UNCHANGED << variant, appVars, kArgs, kNum >>

call_velocityTransform ==
    /\ variant = "kernel" /\ kCall = "none"
    /\ kCall' = "velocityTransform"
    /\ kNum' = velocityTransform(kArgs.obj.v, kArgs.V)
    /\ UNCHANGED << variant, appVars, kArgs, kLine >>

call_getWorldLine ==
    /\ variant = "kernel" /\ kCall = "none"
    /\ kCall' = "getWorldLine"
    /\ kLine' = getWorldLine(kArgs.obj, kArgs.tMin, kArgs.tMax, kArgs.V)
    /\ UNCHANGED << variant, appVars, kArgs, kNum >>

call_getObserverWorldLine ==
    /\ variant = "kernel" /\ kCall = "none"
    /\ kCall' = "getObserverWorldLine"
    /\ kLine' = getObserverWorldLine(kArgs.tMin, kArgs.tMax)
    /\ UNCHANGED << variant, appVars, kArgs, kNum >>

\* velocityTransform applied twice, the second time with -V
call_roundTrip ==
    /\ variant = "kernel" /\ kCall = "none"
    /\ kCall' = "roundTrip"
    /\ kNum' = velocityTransform(velocityTransform(kArgs.obj.v, kArgs.V), fNeg(kArgs.V))
    /\ UNCHANGED << variant, appVars, kArgs, kLine >>

\* gamma of the offset-observer kernel
call_gamma ==
    /\ variant = "kernel" /\ kCall = "none"
    /\ kCall' = "gamma"
    /\ kNum' = gamma(kArgs.V)
    /\ UNCHANGED << variant, appVars, kArgs, kLine >>

\* gamma of the simple-comoving kernel
call_gamma_c ==
    /\ variant = "kernel" /\ kCall = "none"
    /\ kCall' = "gamma_c"
    /\ kNum' = gamma_c(kArgs.V)
    /\ UNCHANGED << variant, appVars, kArgs, kLine >>

\* ------------------------------------------------------------------------
\* Specifications
\* ------------------------------------------------------------------------

InitApp ==
    /\ pc = "load"
    /\ objects = << >>
    /\ objectListEl = << >>
    /\ currentRefFrame = Null
    /\ refFrameSelect = << >>
    /\ frame = [v |-> Zero, x |-> Zero]
    /\ frameMatchSelect = << >>
    /\ rendered = [V |-> Zero, objects |-> << >>]
    /\ lastCall = [op |-> "none", arg |-> Null, found |-> FALSE, ref |-> Null, text |-> << >>]

InitNoKernel ==
    /\ kArgs = [obj |-> [x |-> Zero, v |-> Zero], tMin |-> Zero, tMax |-> Zero, V |-> Zero]
    /\ kCall = "none"
    /\ kLine = << >>
    /\ kNum = Zero

InitComoving == variant = "comoving" /\ InitApp /\ InitNoKernel

InitOffset == variant = "offset" /\ InitApp /\ InitNoKernel

InitKernel ==
    /\ variant = "kernel"
    /\ InitApp
    /\ kArgs \in KernelArgs
    /\ kCall = "none"
    /\ kLine = << >>
    /\ kNum = Zero

NextComoving ==
    \/ init_c
    \/ addObjectBtn_click_c
    \/ delete_click_c
    \/ removeObject_call_c
    \/ refFrameSelect_change
    \/ resize_c

NextOffset ==
    \/ init_o
    \/ addObjectBtn_click_o
    \/ delete_click_o
    \/ removeObject_call_o
    \/ frameVInput_input
    \/ frameXInput_input
    \/ frameMatchSelect_change
    \/ matchFrameToObject_call
    \/ resize_o

NextKernel ==
    \/ call_getWorldLineInObserverFrame
    \/ call_velocityTransform
    \/ call_roundTrip
    \/ call_gamma
    \/ call_gamma_c
    \/ call_getWorldLine
    \/ call_getObserverWorldLine

\* the simple-comoving application driven by its events
SpecComoving == InitComoving /\ [][NextComoving]_vars

\* the same, with setRefFrame also called with any id
SpecComovingCalls == InitComoving /\ [][NextComoving \/ setRefFrame_call]_vars

\* the offset-observer application driven by its events
SpecOffset == InitOffset /\ [][NextOffset]_vars

\* the kernel functions on drawn arguments
SpecKernel == InitKernel /\ [][NextKernel]_vars

Init == InitComoving \/ InitOffset

Next == NextComoving \/ NextOffset

\* both applications
Spec == Init /\ [][Next]_vars



\* ------------------------------------------------------------------------
\* Properties
\* ------------------------------------------------------------------------

\* the registry holds an object with this id
HasId(objs, id) == \E i \in 1..Len(objs) : objs[i].id = id

\* a sequence without its i-th entry
Without(seq, i) == [j \in 1..(Len(seq) - 1) |-> IF j < i THEN seq[j] ELSE seq[j + 1]]

\* C1: simple-comoving variant. When removeObject(id) removes an object whose
\* id is the bound reference frame, the frame is Lab (null) afterwards and
\* the render of that removal uses reference velocity 0.
C1_RemovingReferenceResetsToLab ==
    (lastCall.op = "removeObject" /\ lastCall.found /\ lastCall.ref = lastCall.arg)
        => (currentRefFrame = Null /\ rendered.V = Zero)

\* C1 happens: the Rocket was the reference frame, it was removed, and an
\* object is left
C1_Witness ==
    /\ lastCall.op = "removeObject" /\ lastCall.found /\ lastCall.ref = lastCall.arg
    /\ Len(objects) = 1 /\ objects[1].name = "Observer"
    /\ currentRefFrame = Null

\* C2: simple-comoving variant. The reference velocity render uses is 0 in the
\* Lab frame (currentRefFrame null), and otherwise the v of a registry object
\* whose id is currentRefFrame.
C2_RenderedVelocityFollowsFrame ==
    pc = "ready" =>
        IF currentRefFrame = Null THEN rendered.V = Zero
        ELSE \E i \in 1..Len(objects) :
                 objects[i].id = currentRefFrame /\ rendered.V = objects[i].v

\* C2 happens: the frame is comoving with an object that moves
C2_Witness ==
    /\ pc = "ready" /\ currentRefFrame # Null
    /\ rendered.V # Zero
    /\ lastCall.op = "setRefFrame"

\* C3: removeObject(id) with an id that matches no registry object changes
\* neither the registry nor the frame selection, in both variants.
C3_RemoveAbsentIsNoOp ==
    [][(lastCall'.op = "removeObject" /\ ~HasId(objects, lastCall'.arg))
         => UNCHANGED << objects, currentRefFrame, frame >>]_vars

\* C3 happens: removeObject was called with an id no object of a non-empty
\* registry has
C3_Witness ==
    /\ lastCall.op = "removeObject" /\ ~lastCall.found
    /\ Len(objects) > 0
    /\ ~HasId(objects, lastCall.arg)

\* C4: addObject appends the object it is given and leaves the entries before
\* it as they are; removeObject(id) takes out one entry, whose id is id, and
\* leaves the others and their order as they are; nothing else changes the
\* registry.  So the registry is the added objects not removed, in the order
\* they were added.
C4_RegistryIsAddedMinusRemoved ==
    [][CASE lastCall'.op = "addObject" -> objects' = Append(objects, lastCall'.arg)
         [] lastCall'.op = "removeObject" ->
                IF HasId(objects, lastCall'.arg)
                THEN \E i \in 1..Len(objects) :
                         objects[i].id = lastCall'.arg /\ objects' = Without(objects, i)
                ELSE objects' = objects
         [] lastCall'.op = "init" ->
                /\ Len(objects') = Len(objects) + 2
                /\ SubSeq(objects', 1, Len(objects)) = objects
                /\ objects'[Len(objects) + 1].name = "Observer"
                /\ objects'[Len(objects) + 2].name = "Rocket"
         [] OTHER -> objects' = objects]_vars

\* C4 happens: the Observer, added first, was removed and the Rocket, added
\* after it, is what the registry holds
C4_Witness ==
    /\ lastCall.op = "removeObject" /\ lastCall.found
    /\ Len(objects) = 1
    /\ objects[1].name = "Rocket"

\* C5: no two objects of the registry have the same id.
C5_IdsAreUnique ==
    \A i \in 1..Len(objects), j \in 1..Len(objects) :
        i # j => objects[i].id # objects[j].id

\* C6: offset-observer variant. The observer velocity frame.v, which render
\* hands to getWorldLineInObserverFrame and so to gamma, satisfies
\* |frame.v| < 1 in every state.
C6_FrameVelocityBelowLight ==
    (variant = "offset" /\ pc = "ready")
        => (fLess(fAbs(frame.v), One) /\ fLess(fAbs(rendered.V), One))

\* C7: an object the add-object click handler creates has v in
\* [-0.999, 0.999], and v = 0 when the velocity field is not a number; every
\* object of the registry has -1 < v < 1.
C7_ObjectVelocitiesBelowLight ==
    /\ lastCall.op = "addObject" =>
           /\ fLessEq(fNeg(Lit0999), lastCall.arg.v)
           /\ fLessEq(lastCall.arg.v, Lit0999)
           /\ IsNaN(ParseFloat(lastCall.text)) => lastCall.arg.v = Zero
    /\ \A i \in 1..Len(objects) :
           fLess(fNeg(One), objects[i].v) /\ fLess(objects[i].v, One)

\* C7 happens: the velocity field held 1.5 and the object added has the
\* clamped velocity
C7_Witness ==
    /\ lastCall.op = "addObject"
    /\ lastCall.text = << "1", ".", "5" >>
    /\ Len(objects) > 0
    /\ objects[Len(objects)] = lastCall.arg
    /\ lastCall.arg.v = Lit099

\* the boost of the lab event where the object's line meets t' = 0
XPrime0(obj, observerV) ==
    LET d == fSub(One, fMul(obj.v, observerV))
        xLab == fDiv(obj.x, d)
    IN  lorentzTransform(xLab, fMul(observerV, xLab), observerV).x

\* C8: getWorldLineInObserverFrame returns no event exactly when
\* |1 - obj.v*observerV| < 1e-10; otherwise it returns two events, at
\* t = tPrimeMin and t = tPrimeMax, with x = x'0 + vPrime*t, where vPrime is
\* velocityTransform(obj.v, observerV) and x'0 the boost of the lab event
\* (obj.x/(1 - obj.v*observerV), observerV*obj.x/(1 - obj.v*observerV)).
C8_WorldLineEndpoints ==
    kCall = "getWorldLineInObserverFrame" =>
        LET d == fSub(One, fMul(kArgs.obj.v, kArgs.V))
            vPrime == velocityTransform(kArgs.obj.v, kArgs.V)
            x0 == XPrime0(kArgs.obj, kArgs.V)
        IN  /\ (kLine = << >>) <=> fLess(fAbs(d), Lit1em10)
            /\ kLine # << >> =>
                   /\ Len(kLine) = 2
                   /\ kLine[1].t = kArgs.tMin
                   /\ kLine[2].t = kArgs.tMax
                   /\ \A i \in 1..2 : kLine[i].x = fAdd(x0, fMul(vPrime, kLine[i].t))

\* C8 happens: a moving observer, an object away from the origin, two
\* finite events
C8_Witness ==
    /\ kCall = "getWorldLineInObserverFrame"
    /\ Len(kLine) = 2
    /\ kArgs.V # Zero /\ fLess(fAbs(kArgs.V), One)
    /\ kArgs.obj.x # Zero /\ kArgs.obj.v # Zero
    /\ IsFinite(kLine[1].x) /\ IsFinite(kLine[2].x)
    /\ kLine[1].x # kLine[2].x

\* C9: for finite arguments, |observerV| >= 1 included,
\* getWorldLineInObserverFrame returns no event or two events whose x and t
\* are finite.
C9_WorldLineIsFinite ==
    kCall = "getWorldLineInObserverFrame" =>
        \A i \in 1..Len(kLine) : IsFinite(kLine[i].x) /\ IsFinite(kLine[i].t)

\* C10: for u and V strictly inside (-1, 1), velocityTransform(u, V) is
\* strictly inside (-1, 1).
C10_VelocityTransformClosed ==
    (/\ kCall = "velocityTransform"
     /\ fLess(fAbs(kArgs.obj.v), One)
     /\ fLess(fAbs(kArgs.V), One))
        => fLess(fAbs(kNum), One)

\* what the round trip may be off by and still count as recovering u
RoundTripTolerance == DivNat(1, 8, 0)

\* C11: for u and V strictly inside (-1, 1),
\* velocityTransform(velocityTransform(u, V), -V) recovers u (here: to within
\* RoundTripTolerance, far more than rounding of one operation).
C11_RoundTripRecovers ==
    (/\ kCall = "roundTrip"
     /\ fLess(fAbs(kArgs.obj.v), One)
     /\ fLess(fAbs(kArgs.V), One))
        => fLessEq(fAbs(fSub(kNum, kArgs.obj.v)), RoundTripTolerance)

\* C12: for |v| >= 1, gamma(v) is positive infinity, in the kernel of both
\* variants.
C12_GammaInfiniteAtLightSpeed ==
    (kCall \in { "gamma", "gamma_c" } /\ fLessEq(One, fAbs(kArgs.V)))
        => kNum = Infinity

\* the rounding the two computations of a point may differ by: 16 units in
\* the last place of a Number as large as gamma times the arguments
LineTolerance(a) ==
    fMul(Canon(1, 4 - Precision),
         fMul(gamma(a.V),
              fAdd(One, fAdd(fAbs(a.obj.x), fAdd(fAbs(a.tMin), fAbs(a.tMax))))))

\* C14: for |obj.v| < 1 and |V| < 1, every point (x', t') that getWorldLine
\* returns lies, to within rounding, on the line x' = x'0 + vPrime*t' that
\* getWorldLineInObserverFrame constructs for the same object and V.
C14_SamplesLieOnClosedFormLine ==
    (/\ kCall = "getWorldLine"
     /\ fLess(fAbs(kArgs.obj.v), One)
     /\ fLess(fAbs(kArgs.V), One)
     /\ getWorldLineInObserverFrame(kArgs.obj, kArgs.tMin, kArgs.tMax, kArgs.V) # << >>)
        => LET vPrime == velocityTransform(kArgs.obj.v, kArgs.V)
               x0 == XPrime0(kArgs.obj, kArgs.V)
           IN  \A n \in 1..Len(kLine) :
                   fLessEq(fAbs(fSub(kLine[n].x, fAdd(x0, fMul(vPrime, kLine[n].t)))),
                           LineTolerance(kArgs))

\* C14 happens: a moving frame, an object away from the origin that moves in
\* that frame, all the points sampled
C14_Witness ==
    /\ kCall = "getWorldLine"
    /\ kArgs.V # Zero /\ fLess(fAbs(kArgs.V), One)
    /\ kArgs.obj.v # kArgs.V /\ fLess(fAbs(kArgs.obj.v), One)
    /\ kArgs.obj.x # Zero
    /\ Len(kLine) = steps + 1
    /\ kLine[1].x # kLine[steps + 1].x
    /\ kLine[1].t # kArgs.tMin

\* how far short of the window the sampled times may fall and still count as
\* spanning it
WindowSlack == DivNat(1, 8, 0)

\* C15: for |obj.v| < 1, |refV| < 1 and tMin < tMax, the times t' of the
\* points getWorldLine returns span [tMin, tMax]: some t' is at most tMin and
\* some t' is at least tMax (here: to within WindowSlack).
C15_SamplesSpanWindow ==
    (/\ kCall = "getWorldLine"
     /\ fLess(fAbs(kArgs.obj.v), One)
     /\ fLess(fAbs(kArgs.V), One)
     /\ fLess(kArgs.tMin, kArgs.tMax))
        => /\ \E n \in 1..Len(kLine) : fLessEq(kLine[n].t, fAdd(kArgs.tMin, WindowSlack))
           /\ \E n \in 1..Len(kLine) : fLessEq(fSub(kArgs.tMax, WindowSlack), kLine[n].t)

\* C16: offset-observer variant. matchFrameToObject(id) of a registry object
\* copies its v and x into the frame; with an id not in the registry it
\* leaves the frame as it is; and no addObject or removeObject changes the
\* frame, the removal of the matched object included.
C16_MatchIsOneShotCopy ==
    [][variant = "offset" =>
         /\ lastCall'.op = "matchFrameToObject" =>
                IF HasId(objects, lastCall'.arg)
                THEN \E i \in 1..Len(objects) :
                         /\ objects[i].id = lastCall'.arg
                         /\ frame' = [v |-> objects[i].v, x |-> objects[i].x]
                ELSE frame' = frame
         /\ lastCall'.op \in { "addObject", "removeObject" } => frame' = frame]_vars

\* C16 happens: the frame holds the velocity and position of an object added
\* by a click, and that object has just been removed
C16_Witness ==
    /\ variant = "offset"
    /\ lastCall.op = "removeObject" /\ lastCall.found
    /\ frame = [v |-> Lit099, x |-> FromInt(2)]
    /\ \A i \in 1..Len(objects) : objects[i].v # Lit099

\* the frame velocity of the current state
FrameVelocity ==
    IF variant = "offset" THEN frame.v
    ELSE IF currentRefFrame = Null \/ ~HasId(objects, currentRefFrame) THEN Zero
         ELSE objects[CHOOSE i \in 1..Len(objects) :
                          /\ objects[i].id = currentRefFrame
                          /\ \A j \in 1..(i - 1) : objects[j].id # currentRefFrame].v

\* C17: every event that changes the registry or the frame renders after its
\* change, so between events what was rendered last is the registry and the
\* frame velocity of the current state.
C17_RenderedIsCurrent ==
    pc = "ready" => (rendered.objects = objects /\ rendered.V = FrameVelocity)

\* C17 happens: an object was added by a click after the frame was given a
\* velocity, and both are in what was rendered
C17_Witness ==
    /\ pc = "ready"
    /\ lastCall.op = "addObject"
    /\ rendered.V # Zero
    /\ Len(rendered.objects) = MaxObjects
    /\ rendered.objects[MaxObjects] = lastCall.arg

\* C18: simple-comoving variant. After any additions, removals and
\* selections of an offered option, currentRefFrame is null or the id of an
\* object of the registry, and the select offers 'Lab Frame' followed by one
\* option for each object of the registry, in order.
C18_RefFrameNeverDangles ==
    (variant = "comoving" /\ pc = "ready") =>
        /\ currentRefFrame = Null \/ HasId(objects, currentRefFrame)
        /\ Len(refFrameSelect) = Len(objects) + 1
        /\ refFrameSelect[1] = [value |-> << >>, text |-> "Lab Frame"]
        /\ \A i \in 1..Len(objects) :
               /\ ParseFloat(refFrameSelect[i + 1].value) = objects[i].id
               /\ refFrameSelect[i + 1].text = objects[i].name

\* C18 happens: the frame is bound to an object and another object has just
\* been removed
C18_Witness ==
    /\ variant = "comoving" /\ pc = "ready"
    /\ currentRefFrame # Null
    /\ lastCall.op = "removeObject" /\ lastCall.found
    /\ lastCall.arg # currentRefFrame
    /\ Len(objects) = 1

\* C19: offset-observer variant. Once matchFrameToObject has made the frame
\* comoving with a registry object X (frame.v = X.v, frame.x = X.x), the
\* world line render computes for X is the observer's own: x' = 0 at both
\* endpoints.
C19_ComovingObjectAtOrigin ==
    (variant = "offset" /\ lastCall.op = "matchFrameToObject" /\ lastCall.found) =>
        \A i \in 1..Len(rendered.objects) :
            (/\ rendered.objects[i].id = lastCall.arg
             /\ rendered.objects[i].v = frame.v
             /\ rendered.objects[i].x = frame.x
             /\ fLess(fAbs(frame.v), One))
                => drawnWorldLine_o(rendered.objects[i], rendered.V) = drawnObserverLine_o

====
